---- MODULE Spec2Model ----
(***************************************************************************)
(* Model of src/tz.rs of kepler: the Tezos authorization string            *)
(* (TezosAuthorizationString): its nom parser, its canonical encoder, the  *)
(* binary envelope of the bytes to sign, verify and Manifest::authorize.   *)
(*                                                                         *)
(* A Rust string is modelled as a sequence of one-character strings, so    *)
(* that the parser works on characters as nom does.  All characters used   *)
(* are ASCII, so one character is one UTF-8 byte.                          *)
(***************************************************************************)
EXTENDS Integers, Sequences, FiniteSets, TLC

(***************************************************************************)
(* Bounds of the model.                                                    *)
(***************************************************************************)
\* longest item list of a constructed token or a generated header
MaxItems == 2
\* number of signatures the signing oracle hands out in one behaviour
MaxSigs == 1
\* length of the long string given to encode_string (needs two length bytes)
LongLen == 300

(***************************************************************************)
(* String literals of the source.                                          *)
(***************************************************************************)
SP == " "

\* tag("Tezos Signed Message:")
Prefix ==
  <<"T","e","z","o","s"," ","S","i","g","n","e","d"," ","M","e","s","s","a","g","e",":">>

KwGET == <<"G","E","T">>
KwPUT == <<"P","U","T">>
KwDEL == <<"D","E","L">>
KwCREATE == <<"C","R","E","A","T","E">>
KwLIST == <<"L","I","S","T">>

\* format!("did:pkh:tz:{}", ..)
DidPrefix == <<"d","i","d",":","p","k","h",":","t","z",":">>

Fragment == "TezosMethod2021"

(***************************************************************************)
(* Action (crate::auth::Action): a variant and its ordered content.        *)
(***************************************************************************)
ActList == [kind |-> "List", content |-> <<>>]

ActGet(c) == [kind |-> "Get", content |-> c]

ActPut(c) == [kind |-> "Put", content |-> c]

ActDel(c) == [kind |-> "Del", content |-> c]

ActCreate(c) == [kind |-> "Create", content |-> c]

(***************************************************************************)
(* nom combinators.  A result is [ok, rest, out]: on success rest is the   *)
(* remaining input and out the produced value.                             *)
(***************************************************************************)
Fail == [ok |-> FALSE, rest |-> <<>>, out |-> <<>>]

Succ(rest, out) == [ok |-> TRUE, rest |-> rest, out |-> out]

Drop(s, n) == SubSeq(s, n + 1, Len(s))

StartsWith(s, t) == Len(s) >= Len(t) /\ SubSeq(s, 1, Len(t)) = t

\* nom::bytes::complete::tag: Ok((remaining, matched))
tag(t, s) == IF StartsWith(s, t) THEN Succ(Drop(s, Len(t)), t) ELSE Fail

\* nom::bytes::complete::take_until: the text before the first occurrence of
\* the pattern, which is not consumed; an error when it does not occur.  The
\* text taken may be empty.
take_until(c, s) ==
  IF \E i \in 1..Len(s) : s[i] = c
  THEN LET i == CHOOSE j \in 1..Len(s) : s[j] = c /\ \A k \in 1..(j - 1) : s[k] # c
       IN Succ(Drop(s, i - 1), SubSeq(s, 1, i - 1))
  ELSE Fail

\* preceded(tag(" "), take_until(" "))
space_delimit(s) ==
  LET t == tag(<<SP>>, s)
  IN IF t.ok THEN take_until(SP, t.rest) ELSE Fail

\* many0 of space_delimit: repeat until the first error; used by many1
RECURSIVE many0_space_delimit(_, _)
many0_space_delimit(s, acc) ==
  LET r == space_delimit(s)
  IN IF r.ok THEN many0_space_delimit(r.rest, Append(acc, r.out))
     ELSE Succ(s, acc)

\* a faulty many1 that accepts no repetition at all (many0)
many1_accepting_none(s) == many0_space_delimit(s, <<>>)

\* nom::multi::many1(space_delimit): the first application must succeed
many1_space_delimit(s) ==
  LET r == space_delimit(s)
  IN IF r.ok THEN many0_space_delimit(r.rest, <<r.out>>) ELSE Fail

\* tuple((tag(verb), many1(space_delimit)))
content_action(kw, s) ==
  LET t == tag(kw, s)
  IN IF t.ok THEN many1_space_delimit(t.rest) ELSE Fail

\* tag("LIST")(s).map(|(_, rest)| (rest, Action::List)): tag yields
\* (remaining, matched) and the closure keeps the second component, the
\* matched text, as the remaining input.
parse_list(s) ==
  LET t == tag(KwLIST, s)
  IN IF t.ok THEN Succ(t.out, ActList) ELSE Fail

parse_get(s) ==
  LET r == content_action(KwGET, s)
  IN IF r.ok THEN Succ(r.rest, ActGet(r.out)) ELSE Fail

parse_put(s) ==
  LET r == content_action(KwPUT, s)
  IN IF r.ok THEN Succ(r.rest, ActPut(r.out)) ELSE Fail

parse_del(s) ==
  LET r == content_action(KwDEL, s)
  IN IF r.ok THEN Succ(r.rest, ActDel(r.out)) ELSE Fail

parse_create(s) ==
  LET r == content_action(KwCREATE, s)
  IN IF r.ok THEN Succ(r.rest, ActCreate(r.out)) ELSE Fail

\* nom::branch::alt: the first alternative that succeeds
alt(r1, r2) == IF r1.ok THEN r1 ELSE r2

\* alt((parse_get, parse_put, parse_del, parse_create, parse_list))
parse_action(s) ==
  alt(parse_get(s),
      alt(parse_put(s), alt(parse_del(s), alt(parse_create(s), parse_list(s)))))

\* nom::sequence::tuple: the next parser runs on the rest of the input left
\* by the ones before it, and its output is added to theirs; r is the result
\* so far and x the result of the next parser on r.rest
then(r, x) == IF r.ok /\ x.ok THEN Succ(x.rest, Append(r.out, x.out)) ELSE Fail

then_space_delimit(r) == then(r, space_delimit(r.rest))

then_space(r) == then(r, tag(<<SP>>, r.rest))

then_parse_action(r) == then(r, parse_action(r.rest))

\* tuple((tag("Tezos Signed Message:"), space_delimit, space_delimit,
\*        space_delimit, space_delimit, space_delimit, tag(" "), parse_action,
\*        tag(" "))): out holds the nine outputs in this order
from_str_tuple(s) ==
  then_space(then_parse_action(then_space(
    then_space_delimit(then_space_delimit(then_space_delimit(
      then_space_delimit(then_space_delimit(
        then(Succ(s, <<>>), tag(Prefix, s))))))))))

(***************************************************************************)
(* OrbitId (crate::resource::OrbitId): an identifier with a string form    *)
(* that parses back to it.                                                 *)
(***************************************************************************)
OrbitIds == {"orbit1", "orbit2"}

\* Display for OrbitId
OrbitToString(o) ==
  IF o = "orbit1" THEN <<"k",":","1">> ELSE <<"k",":","2">>

\* FromStr for OrbitId: [ok, id]
OrbitFromStr(s) ==
  IF \E o \in OrbitIds : OrbitToString(o) = s
  THEN [ok |-> TRUE, id |-> CHOOSE o \in OrbitIds : OrbitToString(o) = s]
  ELSE [ok |-> FALSE, id |-> "none"]

(***************************************************************************)
(* TezosAuthorizationString                                                *)
(***************************************************************************)
Token(sig, domain, pk, pkh, timestamp, orbit, action) ==
  [sig |-> sig, domain |-> domain, pk |-> pk, pkh |-> pkh,
   timestamp |-> timestamp, orbit |-> orbit, action |-> action]

\* the absence of a token
NoToken ==
  Token(<<>>, <<>>, <<>>, <<>>, <<>>, "none", [kind |-> "None", content |-> <<>>])

ParseErr == [ok |-> FALSE, tok |-> NoToken]

\* a faulty from_str that takes the fourth field for pk and the third for pkh
from_str_swapped(s) ==
  LET r == from_str_tuple(s)
      o == OrbitFromStr(r.out[6])
  IN IF r.ok /\ o.ok
     THEN [ok |-> TRUE,
           tok |-> Token(r.rest, r.out[2], r.out[5], r.out[4], r.out[3], o.id, r.out[8])]
     ELSE ParseErr

\* FromStr for TezosAuthorizationString: the tuple of parsers, the rest of
\* the input as the signature, and the orbit parsed with `?`.  The tuple
\* yields (_, domain, timestamp, pk, pkh, orbit, _, action, _).
from_str(s) ==
  LET r == from_str_tuple(s)
      o == OrbitFromStr(r.out[6])
  IN IF r.ok /\ o.ok
     THEN [ok |-> TRUE,
           tok |-> Token(r.rest, r.out[2], r.out[4], r.out[5], r.out[3], o.id, r.out[8])]
     ELSE ParseErr

\* [String]::join(" ")
RECURSIVE JoinSp(_)
JoinSp(ss) ==
  IF Len(ss) = 0 THEN <<>>
  ELSE IF Len(ss) = 1 THEN ss[1]
  ELSE ss[1] \o <<SP>> \o JoinSp(Tail(ss))

\* [action, &content.join(" ")].join(" ")
serialize_content_action(kw, content) == JoinSp(<<kw, JoinSp(content)>>)

serialize_action(action) ==
  CASE action.kind = "Put" -> serialize_content_action(KwPUT, action.content)
    [] action.kind = "Get" -> serialize_content_action(KwGET, action.content)
    [] action.kind = "Del" -> serialize_content_action(KwDEL, action.content)
    [] action.kind = "List" -> KwLIST
    [] action.kind = "Create" -> JoinSp(<<KwCREATE, JoinSp(action.content)>>)

\* a faulty serialize that writes the signature as well
serialize_with_sig(t) ==
  Prefix \o <<SP>> \o t.domain \o <<SP>> \o t.timestamp \o <<SP>> \o t.pk
    \o <<SP>> \o t.pkh \o <<SP>> \o OrbitToString(t.orbit)
    \o <<SP>> \o serialize_action(t.action) \o <<SP>> \o t.sig

\* format!("Tezos Signed Message: {} {} {} {} {} {}", ..)
serialize(t) ==
  Prefix \o <<SP>> \o t.domain \o <<SP>> \o t.timestamp \o <<SP>> \o t.pk
    \o <<SP>> \o t.pkh \o <<SP>> \o OrbitToString(t.orbit)
    \o <<SP>> \o serialize_action(t.action)

\* Display: write!(f, "Tezos Signed Message: {} {} {} {} {} {} {}", ..)
fmt(t) ==
  Prefix \o <<SP>> \o t.domain \o <<SP>> \o t.timestamp \o <<SP>> \o t.pk
    \o <<SP>> \o t.pkh \o <<SP>> \o OrbitToString(t.orbit)
    \o <<SP>> \o serialize_action(t.action) \o <<SP>> \o t.sig

(***************************************************************************)
(* encode_string: the bytes are produced as the code produces them, by     *)
(* formatting a hexadecimal string and decoding it.                        *)
(***************************************************************************)
\* str::as_bytes for the characters of the model (all ASCII)
ByteOf ==
  [c \in {" ", ":", "1", "2", "A", "C", "D", "E", "F", "G", "I", "L", "M", "O",
          "P", "R", "S", "T", "U", "X", "a", "b", "d", "e", "g", "h", "i", "k",
          "m", "n", "o", "p", "s", "t", "x", "z"} |->
     CASE c = " " -> 32 [] c = ":" -> 58 [] c = "1" -> 49 [] c = "2" -> 50
       [] c = "A" -> 65 [] c = "C" -> 67 [] c = "D" -> 68 [] c = "E" -> 69
       [] c = "F" -> 70 [] c = "G" -> 71 [] c = "I" -> 73 [] c = "L" -> 76
       [] c = "M" -> 77 [] c = "O" -> 79 [] c = "P" -> 80 [] c = "R" -> 82
       [] c = "S" -> 83 [] c = "T" -> 84 [] c = "U" -> 85 [] c = "X" -> 88
       [] c = "a" -> 97 [] c = "b" -> 98 [] c = "d" -> 100 [] c = "e" -> 101
       [] c = "g" -> 103 [] c = "h" -> 104 [] c = "i" -> 105 [] c = "k" -> 107
       [] c = "m" -> 109 [] c = "n" -> 110 [] c = "o" -> 111 [] c = "p" -> 112
       [] c = "s" -> 115 [] c = "t" -> 116 [] c = "x" -> 120 [] c = "z" -> 122]

as_bytes(s) == [i \in 1..Len(s) |-> ByteOf[s[i]]]

HexChars ==
  <<"0","1","2","3","4","5","6","7","8","9","a","b","c","d","e","f">>

HexVal ==
  [c \in {HexChars[i] : i \in 1..16} |-> (CHOOSE i \in 1..16 : HexChars[i] = c) - 1]

\* {:x}: the hexadecimal digits of n, without leading zeros
RECURSIVE LowerHex(_)
LowerHex(n) ==
  IF n < 16 THEN <<HexChars[n + 1]>>
  ELSE Append(LowerHex(n \div 16), HexChars[(n % 16) + 1])

\* a faulty length field, {:04x}: 16 bits instead of 32
LowerHex04(n) ==
  LET h == LowerHex(n)
  IN IF Len(h) >= 4 THEN h ELSE [i \in 1..(4 - Len(h)) |-> "0"] \o h

\* {:08x}: padded with zeros to a width of at least 8
LowerHex08(n) ==
  LET h == LowerHex(n)
  IN IF Len(h) >= 8 THEN h ELSE [i \in 1..(8 - Len(h)) |-> "0"] \o h

\* hex::encode
hex_encode(bs) ==
  [i \in 1..(2 * Len(bs)) |->
     IF i % 2 = 1 THEN HexChars[(bs[(i + 1) \div 2] \div 16) + 1]
     ELSE HexChars[(bs[i \div 2] % 16) + 1]]

\* hex::decode(..).unwrap(): a string of odd length is an error, and the
\* unwrap panics
hex_decode(h) ==
  IF Len(h) % 2 = 1 THEN <<-1>>
  ELSE [i \in 1..(Len(h) \div 2) |-> 16 * HexVal[h[2 * i - 1]] + HexVal[h[2 * i]]]

encode_string(s) ==
  hex_decode(<<"0","5","0","1">> \o LowerHex08(Len(as_bytes(s)))
               \o hex_encode(as_bytes(s)))

serialize_for_verification(t) == encode_string(serialize(t))

(***************************************************************************)
(* The signing scheme (ssi::tzkey, ssi::jws), taken as ideal: a signature  *)
(* verifies only for the key and the bytes it was made over.  The oracle   *)
(* book maps the i-th signature text to what it signs.                     *)
(***************************************************************************)
Keys == {"K1", "K2"}

\* the text of a public key (edpk..)
PkText(k) == IF k = "K1" THEN <<"p","1">> ELSE <<"p","2">>

\* the key hash of a public key (tz1..)
HashText(k) == IF k = "K1" THEN <<"h","1">> ELSE <<"h","2">>

\* the text of the i-th signature (edsig..)
SigText(i) == <<"s">> \o [j \in 1..i |-> "g"]

NoEntry == [key |-> "none", msg |-> <<>>]

\* ssi::tzkey::jwk_from_tezos_key: [ok, key, alg]
jwk_from_tezos_key(pk) ==
  IF \E k \in Keys : PkText(k) = pk
  THEN [ok |-> TRUE, key |-> CHOOSE k \in Keys : PkText(k) = pk, alg |-> "EdBlake2b"]
  ELSE [ok |-> FALSE, key |-> "none", alg |-> "None"]

\* ssi::tzkey::decode_tzsig: [ok, sig], sig the index of the signature
decode_tzsig(sig) ==
  IF \E i \in 1..MaxSigs : SigText(i) = sig
  THEN [ok |-> TRUE, sig |-> CHOOSE i \in 1..MaxSigs : SigText(i) = sig]
  ELSE [ok |-> FALSE, sig |-> 0]

\* ssi::jws::verify_bytes
verify_bytes(alg, data, key, sig, book) ==
  book[sig] = [key |-> key, msg |-> data]

\* TezosAuthorizationString::verify
verify(t, book) ==
  LET key == jwk_from_tezos_key(t.pk)
      sig == decode_tzsig(t.sig)
  IN IF ~key.ok THEN "InvalidKey"
     ELSE IF ~sig.ok THEN "InvalidSignature"
     ELSE IF key.alg = "None" THEN "InvalidSignatureScheme"
     ELSE IF verify_bytes(key.alg, serialize_for_verification(t), key.key, sig.sig, book)
          THEN "Ok"
          ELSE "SignatureMismatch"

(***************************************************************************)
(* Manifest (crate::manifest::Manifest) and the authorization policy.      *)
(***************************************************************************)
DidUrl(did, fragment) == [did |-> did, fragment |-> fragment]

\* the orbits' manifests: orbit1 is controlled by the holder of K1, orbit2
\* by the holder of K2; orbit2 also lists K1's identity without the fragment
Manifests ==
  {[id |-> "orbit1", invokers |-> {DidUrl(DidPrefix \o HashText("K1"), Fragment)}],
   [id |-> "orbit2", invokers |-> {DidUrl(DidPrefix \o HashText("K2"), Fragment),
                                   DidUrl(DidPrefix \o HashText("K1"), "none")}]}

\* the requester identity built by authorize
requester(t) == DidUrl(DidPrefix \o t.pkh, Fragment)

\* a faulty authorize that verifies first and reports the verifier's error
authorize_verify_first(m, t, book) ==
  IF verify(t, book) # "Ok"
  THEN [res |-> verify(t, book), ran |-> TRUE]
  ELSE IF requester(t) \notin m.invokers
       THEN [res |-> "NotAuthorized", ran |-> TRUE]
       ELSE [res |-> "Ok", ran |-> TRUE]

\* AuthorizationPolicy<TezosAuthorizationString> for Manifest::authorize:
\* [res, ran], ran telling whether verify was called
authorize(m, t, book) ==
  IF requester(t) \notin m.invokers
  THEN [res |-> "NotAuthorized", ran |-> FALSE]
  ELSE [res |-> verify(t, book), ran |-> TRUE]

(***************************************************************************)
(* Inputs: the tokens a program constructs and the header values a         *)
(* request carries.                                                        *)
(***************************************************************************)
DomainTexts == {<<"d">>, <<"e">>}

TimestampTexts == {<<"t">>, <<"t","1">>}

\* the texts of the two keys, and a text that is not a key
PkTexts == {PkText(k) : k \in Keys} \cup {<<"p">>}

PkhTexts == {HashText(k) : k \in Keys}

\* content identifiers; a constructed token may hold any string
Items == {<<"a">>, <<"a"," ","b">>, <<>>}

ItemLists == UNION {[1..n -> Items] : n \in 0..MaxItems}

ContentKinds == {"Get", "Put", "Del", "Create"}

Actions ==
  {ActList} \cup {[kind |-> v, content |-> c] : v \in ContentKinds, c \in ItemLists}

\* signatures of a token that nobody signed: none, a malformed one, and a
\* well-formed one that was made for nothing
UnsignedSigs == {<<>>, <<"x">>, SigText(1)}

\* tokens that vary in the action
CodecTokens ==
  {Token(<<"x">>, <<"d">>, PkText("K1"), HashText("K1"), <<"t">>, "orbit1", a) :
     a \in Actions}

\* tokens that vary in the key, the key hash, the orbit and the signature
TrustTokens ==
  {Token(sg, <<"d">>, pk, pkh, <<"t">>, o, a) :
     sg \in {<<>>, SigText(1)}, pk \in PkTexts, pkh \in PkhTexts, o \in OrbitIds,
     a \in {ActList, ActPut(<<<<"a">>>>), ActGet(<<<<"a"," ","b">>>>), ActDel(<<>>)}}

ConstructedTokens == CodecTokens \cup TrustTokens

\* header values: a prefix, five fields, a word in the action position,
\* items and a tail, right or wrong
HeaderPrefixes ==
  {Prefix, SubSeq(Prefix, 1, Len(Prefix) - 1), <<"t">> \o Tail(Prefix)}

HeaderWords ==
  {KwGET, KwPUT, KwDEL, KwCREATE, KwLIST, <<"G","E","T","X">>,
   <<"g","e","t">>, <<"F","O","O">>, <<>>}

HeaderOrbits == {<<"k",":","1">>, <<"k">>}

HeaderItemLists == UNION {[1..n -> {<<"a">>, <<>>}] : n \in 0..MaxItems}

HeaderTails == {<<>>, <<SP>>, <<SP, "x">>}

RECURSIVE SpacedItems(_)
SpacedItems(is) ==
  IF Len(is) = 0 THEN <<>> ELSE <<SP>> \o Head(is) \o SpacedItems(Tail(is))

HeaderTexts ==
  {p \o <<SP,"d",SP,"t",SP,"p","1",SP,"h","1",SP>> \o o \o <<SP>> \o w
     \o SpacedItems(is) \o tl :
     p \in HeaderPrefixes, o \in HeaderOrbits, w \in HeaderWords,
     is \in HeaderItemLists, tl \in HeaderTails}

\* strings given to encode_string alone
EncodeTexts ==
  {<<"m","e","s","s","a","g","e">>, [i \in 1..LongLen |-> "a"]}

\* the first space of a string (0: none)
FirstSp(s) ==
  IF \E i \in 1..Len(s) : s[i] = SP
  THEN CHOOSE i \in 1..Len(s) : s[i] = SP /\ \A k \in 1..(i - 1) : s[k] # SP
  ELSE 0

\* the item lists got from c by merging two neighbours into one item
Merges(c) ==
  {SubSeq(c, 1, i - 1) \o <<c[i] \o <<SP>> \o c[i + 1]>> \o SubSeq(c, i + 2, Len(c)) :
     i \in 1..(Len(c) - 1)}

\* the item lists got from c by splitting one item at its first space
Splits(c) ==
  {SubSeq(c, 1, i - 1)
     \o <<SubSeq(c[i], 1, FirstSp(c[i]) - 1), Drop(c[i], FirstSp(c[i]))>>
     \o SubSeq(c, i + 1, Len(c)) :
     i \in {j \in 1..Len(c) : FirstSp(c[j]) > 0}}

\* what a third party can make of a signed token without the private key:
\* the same signature, and one of the other fields changed
Tampered(t) ==
  ( {[t EXCEPT !.domain = d] : d \in DomainTexts}
    \cup {[t EXCEPT !.timestamp = d] : d \in TimestampTexts}
    \cup {[t EXCEPT !.pk = d] : d \in PkTexts}
    \cup {[t EXCEPT !.pkh = d] : d \in PkhTexts}
    \cup {[t EXCEPT !.orbit = d] : d \in OrbitIds}
    \cup {[t EXCEPT !.action = [kind |-> v, content |-> t.action.content]] :
            v \in ContentKinds}
    \cup {[t EXCEPT !.action = ActList]}
    \cup IF t.action.kind = "List" THEN {}
         ELSE {[t EXCEPT !.action.content = c] :
                 c \in {Append(t.action.content, i) : i \in Items}
                       \cup Merges(t.action.content)
                       \cup Splits(t.action.content)
                       \cup {SubSeq(t.action.content, 1, Len(t.action.content) - 1)}} )
  \ {t}

NoHeader == [present |-> FALSE, text |-> <<>>]

HeaderOf(text) == [present |-> TRUE, text |-> text]

(***************************************************************************)
(* State.                                                                  *)
(***************************************************************************)
VARIABLES
  tok,     \* the token at hand (NoToken: none yet)
  header,  \* the Authorization header value of the request, when present
  book,    \* the signing oracle: what each signature text signs
  last     \* the last call and what it returned

vars == <<tok, header, book, last>>

Call(op) ==
  [op |-> op, input |-> <<>>, ok |-> FALSE, tok |-> NoToken, res |-> "",
   bytes |-> <<>>, manifest |-> "none", ran |-> FALSE]

Init ==
  /\ \/ tok \in ConstructedTokens /\ header = NoHeader
     \/ tok = NoToken /\ header \in {HeaderOf(h) : h \in HeaderTexts \cup EncodeTexts}
  /\ book = [i \in 1..MaxSigs |-> NoEntry]
  /\ last = Call("none")

(***************************************************************************)
(* Operations.                                                             *)
(***************************************************************************)
\* to_string(): the token is written out as a header value
Display ==
  /\ tok # NoToken
  /\ header' = HeaderOf(fmt(tok))
  /\ last' = [Call("display") EXCEPT !.input = fmt(tok)]
  /\ UNCHANGED <<tok, book>>

\* str::parse::<TezosAuthorizationString>() on the header value
FromStr ==
  /\ header.present
  /\ LET r == from_str(header.text)
     IN last' = [Call("from_str") EXCEPT !.input = header.text, !.ok = r.ok, !.tok = r.tok]
  /\ UNCHANGED <<tok, header, book>>

\* FromRequest::from_request: Success with the parsed token, else Forward
FromRequest ==
  /\ LET r == IF header.present THEN from_str(header.text) ELSE ParseErr
     IN /\ tok' = IF r.ok THEN r.tok ELSE tok
        /\ last' = [Call("from_request") EXCEPT
                      !.input = header.text, !.ok = r.ok, !.tok = r.tok,
                      !.res = IF r.ok THEN "Success" ELSE "Forward"]
  /\ UNCHANGED <<header, book>>

\* encode_string on a string
EncodeString ==
  /\ header.present
  /\ last' = [Call("encode_string") EXCEPT
                !.input = header.text, !.bytes = encode_string(header.text)]
  /\ UNCHANGED <<tok, header, book>>

SerializeForVerification ==
  /\ tok # NoToken
  /\ last' = [Call("serialize_for_verification") EXCEPT
                !.bytes = serialize_for_verification(tok)]
  /\ UNCHANGED <<tok, header, book>>

\* signing as in the test round_trip: the holder of the key pair k, whose
\* public key is the pk of the token, signs the bytes of the token with an
\* empty signature and fills the signature in.  Signing the same bytes with
\* the same key gives the same signature.
Sign(k) ==
  /\ tok # NoToken
  /\ PkText(k) = tok.pk
  /\ LET msg == serialize_for_verification([tok EXCEPT !.sig = <<>>])
         e == [key |-> k, msg |-> msg]
     IN IF \E i \in 1..MaxSigs : book[i] = e
        THEN /\ tok' = [tok EXCEPT !.sig = SigText(CHOOSE i \in 1..MaxSigs : book[i] = e)]
             /\ book' = book
        ELSE /\ \E i \in 1..MaxSigs : book[i] = NoEntry
             /\ LET i == CHOOSE j \in 1..MaxSigs :
                           book[j] = NoEntry /\ \A h \in 1..(j - 1) : book[h] # NoEntry
                IN /\ tok' = [tok EXCEPT !.sig = SigText(i)]
                   /\ book' = [book EXCEPT ![i] = e]
  /\ last' = [Call("sign") EXCEPT !.res = k]
  /\ UNCHANGED header

Verify ==
  /\ tok # NoToken
  /\ last' = [Call("verify") EXCEPT !.tok = tok, !.res = verify(tok, book)]
  /\ UNCHANGED <<tok, header, book>>

\* verify on a token that carries the signature of the verified token at
\* hand over other content, as in the test simple_verify_fail
VerifyTampered ==
  /\ last.op = "verify" /\ last.res = "Ok" /\ last.tok = tok
  /\ \E t2 \in Tampered(tok) :
       last' = [Call("verify_tampered") EXCEPT !.tok = t2, !.res = verify(t2, book)]
  /\ UNCHANGED <<tok, header, book>>

\* Manifest::authorize on the manifest the caller hands in
Authorize(m) ==
  /\ tok # NoToken
  /\ LET r == authorize(m, tok, book)
     IN last' = [Call("authorize") EXCEPT
                   !.tok = tok, !.res = r.res, !.ran = r.ran, !.manifest = m.id]
  /\ UNCHANGED <<tok, header, book>>

Next ==
  \/ Display
  \/ FromStr
  \/ FromRequest
  \/ EncodeString
  \/ SerializeForVerification
  \/ \E k \in Keys : Sign(k)
  \/ Verify
  \/ VerifyTampered
  \/ \E m \in Manifests : Authorize(m)

Spec == Init /\ [][Next]_vars

(***************************************************************************)
(* Properties.                                                             *)
(***************************************************************************)
NoSpace(s) == \A i \in 1..Len(s) : s[i] # SP

ManifestOf(o) == CHOOSE m \in Manifests : m.id = o

\* the identity of a key hash in the notation of the manifest
IdentityOf(pkh) == [did |-> DidPrefix \o pkh, fragment |-> "TezosMethod2021"]

\* C1: whenever authorize succeeds, the key hash of the token is the hash of
\* the public key that verified the signature.
C1_AuthorizedSignerOwnsKeyHash ==
  (last.op = "authorize" /\ last.res = "Ok")
    => \E k \in Keys : PkText(k) = last.tok.pk /\ HashText(k) = last.tok.pkh

\* a valid token in the sense of C2: a non-empty payload unless List, no
\* space in any text, an orbit whose string form parses back to it
ValidToken(t) ==
  /\ t # NoToken
  /\ t.action.kind = "List" \/ Len(t.action.content) >= 1
  /\ NoSpace(t.domain) /\ NoSpace(t.timestamp) /\ NoSpace(t.pk) /\ NoSpace(t.pkh)
  /\ NoSpace(t.sig)
  /\ \A i \in 1..Len(t.action.content) : NoSpace(t.action.content[i])
  /\ OrbitFromStr(OrbitToString(t.orbit)) = [ok |-> TRUE, id |-> t.orbit]

\* C2: parsing the Display string of a valid token succeeds and yields the
\* token itself, field by field.
C2_ParseAfterDisplay ==
  (last.op = "from_str" /\ ValidToken(tok) /\ last.input = fmt(tok))
    => (last.ok /\ last.tok = tok)

\* C3: a token that carries the signature of a verified token and differs
\* from it in another field never verifies.
C3_TamperedNeverVerifies ==
  last.op = "verify_tampered" => last.res # "Ok"

\* C4: authorize fails with the not-authorized error, without calling
\* verify, when the identity of the token's key hash is not in the
\* manifest's set; otherwise it returns the result of verify.
C4_DenyBeforeVerify ==
  last.op = "authorize" =>
    IF IdentityOf(last.tok.pkh) \notin ManifestOf(last.manifest).invokers
    THEN last.res = "NotAuthorized" /\ ~last.ran
    ELSE last.res = verify(last.tok, book) /\ last.ran

\* C4 witness: a token that verifies is denied for not being a controller
C4_Witness ==
  /\ last.op = "authorize" /\ last.res = "NotAuthorized"
  /\ verify(last.tok, book) = "Ok"

\* C5: authorize succeeds only if the identity of the token is in the
\* controller set of the orbit the token names.
C5_OwnOrbitControllers ==
  (last.op = "authorize" /\ last.res = "Ok")
    => IdentityOf(last.tok.pkh) \in ManifestOf(last.tok.orbit).invokers

\* the signature of t is the one made with the private key of t.pk over the
\* bytes of t with an empty signature
HonestlySigned(t) ==
  \E k \in Keys, i \in 1..MaxSigs :
    /\ PkText(k) = t.pk
    /\ t.sig = SigText(i)
    /\ book[i] = [key |-> k, msg |-> serialize_for_verification([t EXCEPT !.sig = <<>>])]

\* C6: the bytes to sign are the same for every value of the signature
\* field, and an honestly signed token verifies.
C6_HonestSignatureVerifies ==
  /\ last.op = "serialize_for_verification" =>
       \A sg \in UnsignedSigs \cup {SigText(i) : i \in 1..MaxSigs} \cup {<<"x", SP, "x">>} :
         serialize_for_verification([tok EXCEPT !.sig = sg]) = last.bytes
  /\ (last.op = "verify" /\ HonestlySigned(last.tok)) => last.res = "Ok"

\* C6 witness: verify has run on an honestly signed token
C6_Witness ==
  last.op = "verify" /\ HonestlySigned(last.tok) /\ last.tok.sig # <<>>

\* the envelope of s: 05 01, the length as 32 bits big-endian, the bytes
Envelope(s, bs) ==
  LET n == Len(s)
  IN /\ Len(bs) = n + 6
     /\ bs[1] = 5 /\ bs[2] = 1
     /\ bs[3] = (n \div 16777216) % 256
     /\ bs[4] = (n \div 65536) % 256
     /\ bs[5] = (n \div 256) % 256
     /\ bs[6] = n % 256
     /\ \A i \in 1..n : bs[6 + i] = ByteOf[s[i]]

\* C7: encode_string(s) is the envelope of s, the bytes to sign of a token
\* are the envelope of its canonical string, and encode_string("message")
\* is 05 01 00 00 00 07 6d 65 73 73 61 67 65.
C7_EnvelopeExact ==
  /\ last.op = "encode_string" =>
       /\ Envelope(last.input, last.bytes)
       /\ last.input = <<"m","e","s","s","a","g","e">> =>
            last.bytes = <<5, 1, 0, 0, 0, 7, 109, 101, 115, 115, 97, 103, 101>>
  /\ last.op = "serialize_for_verification" => Envelope(serialize(tok), last.bytes)

\* C7 witness: a string whose length needs the second length byte
C7_Witness ==
  last.op = "encode_string" /\ Len(last.input) > 255 /\ Len(last.bytes) > 261

\* the words of s: the texts between its spaces
RECURSIVE WordsOf(_)
WordsOf(s) ==
  IF FirstSp(s) = 0 THEN <<s>>
  ELSE <<SubSeq(s, 1, FirstSp(s) - 1)>> \o WordsOf(Drop(s, FirstSp(s)))

HasPrefix(s) == Len(s) >= Len(Prefix) /\ \A i \in 1..Len(Prefix) : s[i] = Prefix[i]

\* the words after the prefix: an empty word, five fields, the action word,
\* the items and the signature
AfterPrefix(s) == WordsOf(SubSeq(s, Len(Prefix) + 1, Len(s)))

HasActionWord(s) ==
  HasPrefix(s) /\ Len(AfterPrefix(s)) >= 7 /\ AfterPrefix(s)[1] = <<>>

UnknownAction(s) ==
  HasActionWord(s) /\ AfterPrefix(s)[7] \notin {KwGET, KwPUT, KwDEL, KwCREATE, KwLIST}

\* a verb directly followed by the signature, or by nothing
ZeroItems(s) ==
  /\ HasActionWord(s)
  /\ AfterPrefix(s)[7] \in {KwGET, KwPUT, KwDEL, KwCREATE}
  /\ Len(AfterPrefix(s)) <= 8

C9_DisplayAfterParse ==
  (last.op = "from_str" /\ last.ok) =>
    LET t == last.tok
    IN /\ fmt(t) = last.input
       /\ serialize(t) = SubSeq(last.input, 1, Len(last.input) - Len(t.sig) - 1)
       /\ NoSpace(t.domain) /\ NoSpace(t.timestamp) /\ NoSpace(t.pk)
       /\ NoSpace(t.pkh) /\ NoSpace(t.sig)
       /\ \A i \in 1..Len(t.action.content) : NoSpace(t.action.content[i])

\* C9 witness: parse accepted an input with two items
C9_Witness ==
  last.op = "from_str" /\ last.ok /\ Len(last.tok.action.content) = 2

\* C10: parsing the Display string of a token with an empty Get, Put, Del
\* or Create payload fails.
C10_EmptyPayloadNotParsed ==
  (last.op = "from_str" /\ tok # NoToken /\ tok.action.kind \in ContentKinds
     /\ tok.action.content = <<>> /\ last.input = fmt(tok))
    => ~last.ok

====
